---- MODULE Spec2Model ----
(***************************************************************************)
(* Model of the go-s3 Client (src/client.go): a wrapper around an          *)
(* S3-compatible SDK client.  The bucket is a set of object keys.  Strings *)
(* (keys, URLs) are sequences of one-character strings, so concatenation,  *)
(* prefixes and normalizeURL are computed character by character.  An      *)
(* error is a non-empty sequence of messages, outermost wrapper first; the *)
(* nil error is the empty sequence.  Every SDK call (PutObject,            *)
(* DeleteObject, HeadObject, ListObjects, PresignGetObject) may fail with  *)
(* any of the SDK errors.                                                  *)
(***************************************************************************)
EXTENDS Integers, Sequences, FiniteSets, TLC

VARIABLES
    store,          \* keys of the objects in the bucket
    uploaded,       \* history: keys a successful UploadFile wrote, not deleted since
    pc,             \* "idle" | "find" | "collect" | "panic"
    op,             \* the call in progress or last completed, with its inputs
    ret,            \* what the last completed call returned (NoRet while one runs)
    listing,        \* objects.Contents of FindKeyByPresignedURL / GetObjects
    idx,            \* FindKeyByPresignedURL: position of the range loop
    signed,         \* FindKeyByPresignedURL: results of GetPresignedURL so far
    pending,        \* GetObjects: indices of the workers that have not sent yet
    resultsChan,    \* GetObjects: buffered channel contents, oldest first
    closed,         \* GetObjects: resultsChan is closed
    wg,             \* GetObjects: sync.WaitGroup counter
    presignedURLs,  \* GetObjects: the pre-sized output slice
    errorCount,     \* GetObjects: collector's errorCount
    firstError,     \* GetObjects: collector's firstError
    received,       \* GetObjects: results the range loop has received, in order
    produced,       \* GetObjects: worker index -> what its GetPresignedURL returned
    presignCalls    \* GetPresignedURL calls made by the current call

vars == <<store, uploaded, pc, op, ret, listing, idx, signed, pending,
          resultsChan, closed, wg, presignedURLs, errorCount, firstError,
          received, produced, presignCalls>>

findVars == <<idx, signed>>
goVars == <<pending, resultsChan, closed, wg, presignedURLs, errorCount,
            firstError, received, produced>>

----------------------------------------------------------------------------
(* Bounds and input sets *)

MaxObjects == 3     \* at most this many objects in the bucket
MaxURLLen == 3      \* normalizeURL is applied to every string up to this length

ObjectIDs == {<<"a">>, <<"b">>}
FileKeys == {<<"a">>, <<"b">>}
URLChars == {"a", "/", "?", "#"}
SDKErrors == {<<"e1">>, <<"e2">>}
Signatures == {"x"}
BaseURL == <<"h", "/">>         \* endpoint and bucket part of a presigned URL

NoErr == <<>>
EmptyString == <<>>
NoRet == [pending |-> TRUE]

\* fmt.Errorf("<msg>: %w", err)
Wrap(msg, err) == <<msg>> \o err

ExampleURL == <<"h","t","t","p","s",":","/","/","h","/","k","?","X","=","1","#","f","r","a","g">>
ExampleNormalized == <<"h","t","t","p","s",":","/","/","h","/","k">>

StringsUpTo(n) == UNION {[1..k -> URLChars] : k \in 0..n}
NormalizeInputs == StringsUpTo(MaxURLLen) \cup {ExampleURL}

----------------------------------------------------------------------------
(* Pure helpers *)

\* UploadFile: objectKey := fmt.Sprintf("%s/%s", objectID, key)
ObjectKeyNoSlash(objectID, key) == objectID \o key
ObjectKey(objectID, key) == objectID \o <<"/">> \o key

CompositeKeys == {ObjectKey(o, k) : o \in ObjectIDs, k \in FileKeys}
LiteralKeys == CompositeKeys \cup {<<"a">>}
Prefixes == {<<>>, <<"a">>, <<"b", "/">>}

\* normalizeURL: scan for the first '?' or '#'
RECURSIVE normalizeFrom(_, _, _)
normalizeFrom(url, i, seps) ==
    IF i > Len(url) THEN url
    ELSE IF url[i] \in seps THEN SubSeq(url, 1, i - 1)
    ELSE normalizeFrom(url, i + 1, seps)

normalizeURLQueryOnly(url) == normalizeFrom(url, 1, {"?"})
normalizeURL(url) == normalizeFrom(url, 1, {"?", "#"})

\* byte order of the characters keys are made of ('/' < 'a' < 'b')
CharRank(c) == CASE c = "/" -> 47 [] c = "a" -> 97 [] c = "b" -> 98

RECURSIVE KeyLess(_, _)
KeyLess(a, b) ==
    IF Len(a) = 0 THEN Len(b) > 0
    ELSE IF Len(b) = 0 THEN FALSE
    ELSE IF a[1] = b[1] THEN KeyLess(Tail(a), Tail(b))
    ELSE CharRank(a[1]) < CharRank(b[1])

RECURSIVE SortKeys(_)
SortKeys(S) ==
    IF S = {} THEN <<>>
    ELSE LET m == CHOOSE k \in S : \A o \in S \ {k} : KeyLess(k, o)
         IN  <<m>> \o SortKeys(S \ {m})

HasPrefix(k, p) == Len(p) <= Len(k) /\ SubSeq(k, 1, Len(p)) = p

\* the service's answer to ListObjects: the keys under the prefix, in key order
ListObjects(bucket, prefix) == SortKeys({k \in bucket : HasPrefix(k, prefix)})

\* what the SDK's PresignGetObject may answer for a key: a URL (whose query
\* part varies from call to call; the type also admits the empty string) or
\* an error
PresignGetObject(key) ==
    {[url |-> BaseURL \o key \o <<"?", s>>, err |-> NoErr] : s \in Signatures}
      \cup {[url |-> EmptyString, err |-> NoErr]}
      \cup {[url |-> EmptyString, err |-> e] : e \in SDKErrors}

\* GetPresignedURL, given the SDK's answer
GetPresignedURL(out) ==
    IF out.err # NoErr
    THEN [url |-> EmptyString, err |-> Wrap("failed to generate presigned URL", out.err)]
    ELSE [url |-> out.url, err |-> NoErr]


FindTargets ==
    {BaseURL \o <<"a", "/", "b", "?", "z">>, BaseURL \o <<"b", "/", "a", "#", "f">>,
     BaseURL \o <<"a", "/", "b">>, EmptyString, BaseURL \o <<"c">>}

\* a Go slice: nil, or a (possibly empty) sequence
NilSlice == [isNil |-> TRUE, elems |-> <<>>]
Slice(s) == [isNil |-> FALSE, elems |-> s]

\* the bucket after PutObject / DeleteObject; a failed call changes nothing
PutObject(bucket, key, putErr) == IF putErr = NoErr THEN bucket \cup {key} ELSE bucket
DeleteObject(bucket, key, delErr) == IF delErr = NoErr THEN bucket \ {key} ELSE bucket

\* the error of HeadObject: the transport fault if any, else NotFound for an absent key
HeadObject(bucket, key, fault) ==
    IF fault # NoErr THEN fault
    ELSE IF key \in bucket THEN NoErr
    ELSE <<"NotFound">>

\* UploadFile from PutObject's error and the result r GetPresignedURL gives
\* (r is not asked for when the put fails): the bucket afterwards, the return
\* value, the number of GetPresignedURL calls
UploadFileRollback(bucket, objectKey, putErr, r) ==
    IF putErr # NoErr
    THEN [bucket |-> bucket, presignCalls |-> 0,
          ret |-> [url |-> EmptyString, err |-> Wrap("failed to upload file to S3", putErr)]]
    ELSE IF r.err # NoErr
    THEN [bucket |-> bucket \ {objectKey}, presignCalls |-> 1,
          ret |-> [url |-> EmptyString, err |-> Wrap("failed to generate presigned URL", r.err)]]
    ELSE [bucket |-> PutObject(bucket, objectKey, putErr), presignCalls |-> 1,
          ret |-> [url |-> r.url, err |-> NoErr]]
UploadFileBody(bucket, objectKey, putErr, r) ==
    IF putErr # NoErr
    THEN [bucket |-> PutObject(bucket, objectKey, putErr), presignCalls |-> 0,
          ret |-> [url |-> EmptyString, err |-> Wrap("failed to upload file to S3", putErr)]]
    ELSE IF r.err # NoErr
    THEN [bucket |-> PutObject(bucket, objectKey, putErr), presignCalls |-> 1,
          ret |-> [url |-> EmptyString, err |-> Wrap("failed to generate presigned URL", r.err)]]
    ELSE [bucket |-> PutObject(bucket, objectKey, putErr), presignCalls |-> 1,
          ret |-> [url |-> r.url, err |-> NoErr]]

\* FileExists' return value, from HeadObject's error
FileExistsResultSurface(headErr) ==
    IF headErr = <<"NotFound">> THEN [exists |-> FALSE, err |-> NoErr]
    ELSE IF headErr # NoErr THEN [exists |-> FALSE, err |-> headErr]
    ELSE [exists |-> TRUE, err |-> NoErr]
FileExistsResult(headErr) ==
    IF headErr # NoErr THEN [exists |-> FALSE, err |-> NoErr]
    ELSE [exists |-> TRUE, err |-> NoErr]

\* FindKeyByPresignedURL: normalizeURL(objPresignedURL) == normalizedTarget
MatchesRaw(url, target) == url = normalizeURL(target)
Matches(url, target) == normalizeURL(url) = normalizeURL(target)

\* GetObjects: capacity of resultsChan for n listed objects
ChanCap(n) == n

\* GetObjects: the result worker idx sends (indices count from 1 here)
WorkerResultNoIndex(i, r) == [index |-> 1, url |-> r.url, err |-> r.err]
WorkerResult(i, r) == [index |-> i, url |-> r.url, err |-> r.err]

\* GetObjects: firstError after the collector sees the error err
RecordErrorLast(firstErr, err) == err
RecordError(firstErr, err) == IF firstErr = NoErr THEN err ELSE firstErr

\* GetObjects: return value for an empty listing
EmptyListingResultNil == [urls |-> NilSlice, err |-> NoErr]
EmptyListingResult == [urls |-> Slice(<<>>), err |-> NoErr]

\* GetObjects: return value once the channel is drained, n = len(objects.Contents)
GetObjectsResult(urls, errCount, firstErr, n) ==
    IF errCount = n
    THEN [urls |-> NilSlice, err |-> Wrap("failed to get presigned URLs", firstErr)]
    ELSE IF errCount > 0
    THEN [urls |-> Slice(SelectSeq(urls, LAMBDA u : u # EmptyString)), err |-> NoErr]
    ELSE [urls |-> Slice(urls), err |-> NoErr]

----------------------------------------------------------------------------
(* State machine *)

\* the client is constructed against a bucket that may already hold objects
Buckets == {b \in SUBSET CompositeKeys : Cardinality(b) <= MaxObjects}

Init ==
    /\ store \in Buckets
    /\ uploaded = {}
    /\ pc = "idle"
    /\ op = [name |-> "New"]
    /\ ret = [err |-> NoErr]
    /\ listing = <<>>
    /\ idx = 0
    /\ signed = <<>>
    /\ pending = {}
    /\ resultsChan = <<>>
    /\ closed = FALSE
    /\ wg = 0
    /\ presignedURLs = <<>>
    /\ errorCount = 0
    /\ firstError = NoErr
    /\ received = <<>>
    /\ produced = <<>>
    /\ presignCalls = 0

\* a new call starts with fresh locals
FreshFind == idx' = 0 /\ signed' = <<>>
FreshGo ==
    /\ pending' = {}
    /\ resultsChan' = <<>>
    /\ closed' = FALSE
    /\ wg' = 0
    /\ presignedURLs' = <<>>
    /\ errorCount' = 0
    /\ firstError' = NoErr
    /\ received' = <<>>
    /\ produced' = <<>>

UploadFile(objectID, key, putErr, out) ==
    LET objectKey == ObjectKey(objectID, key)
        r == GetPresignedURL(out)
        done == UploadFileBody(store, objectKey, putErr, r)
    IN  /\ pc = "idle"
        /\ Cardinality(store \cup {objectKey}) <= MaxObjects
        /\ store' = done.bucket
        /\ presignCalls' = done.presignCalls
        /\ ret' = done.ret
        /\ uploaded' = IF done.ret.err = NoErr THEN uploaded \cup {objectKey} ELSE uploaded
        /\ op' = [name |-> "UploadFile", objectID |-> objectID, key |-> key,
                  objectKey |-> objectKey, putErr |-> putErr,
                  signErr |-> IF putErr = NoErr THEN r.err ELSE NoErr]
        /\ listing' = <<>> /\ FreshFind /\ FreshGo
        /\ UNCHANGED pc

DeleteFile(key, delErr) ==
    /\ pc = "idle"
    /\ store' = DeleteObject(store, key, delErr)
    /\ uploaded' = uploaded \cap store'
    /\ op' = [name |-> "DeleteFile", key |-> key, delErr |-> delErr]
    /\ ret' = [err |-> IF delErr # NoErr
                       THEN Wrap("failed to delete file from S3", delErr)
                       ELSE NoErr]
    /\ presignCalls' = 0
    /\ listing' = <<>> /\ FreshFind /\ FreshGo
    /\ UNCHANGED pc

GetPresignedURLCall(key, out) ==
    /\ pc = "idle"
    /\ op' = [name |-> "GetPresignedURL", key |-> key]
    /\ ret' = GetPresignedURL(out)
    /\ presignCalls' = 1
    /\ listing' = <<>> /\ FreshFind /\ FreshGo
    /\ UNCHANGED <<store, uploaded, pc>>

FileExists(key, fault) ==
    LET headErr == HeadObject(store, key, fault)
    IN  /\ pc = "idle"
        /\ op' = [name |-> "FileExists", key |-> key, headErr |-> headErr]
        /\ ret' = FileExistsResult(headErr)
        /\ presignCalls' = 0
        /\ listing' = <<>> /\ FreshFind /\ FreshGo
        /\ UNCHANGED <<store, uploaded, pc>>

\* FindKeyByPresignedURL up to the range loop: the listing call
FindStart(target, prefix, listErr) ==
    /\ pc = "idle"
    /\ op' = [name |-> "FindKeyByPresignedURL", presignedURL |-> target,
              prefix |-> prefix, listErr |-> listErr]
    /\ presignCalls' = 0
    /\ signed' = <<>>
    /\ FreshGo
    /\ IF listErr # NoErr
       THEN /\ ret' = [key |-> EmptyString, err |-> Wrap("failed to list objects", listErr)]
            /\ listing' = <<>>
            /\ idx' = 0
            /\ pc' = "idle"
       ELSE /\ ret' = NoRet
            /\ listing' = ListObjects(store, prefix)
            /\ idx' = 1
            /\ pc' = "find"
    /\ UNCHANGED <<store, uploaded>>

\* one iteration of the range loop over objects.Contents
FindStep(out) ==
    /\ pc = "find"
    /\ idx <= Len(listing)
    /\ out \in PresignGetObject(listing[idx])
    /\ LET r == GetPresignedURL(out)
       IN  /\ signed' = Append(signed, r)
           /\ presignCalls' = presignCalls + 1
           /\ IF r.err = NoErr /\ Matches(r.url, op.presignedURL)
              THEN /\ ret' = [key |-> listing[idx], err |-> NoErr]
                   /\ pc' = "idle"
                   /\ idx' = idx
              ELSE /\ idx' = idx + 1
                   /\ UNCHANGED <<ret, pc>>
    /\ UNCHANGED <<store, uploaded, op, listing, goVars>>

\* the loop ran out of objects
FindNotFound ==
    /\ pc = "find"
    /\ idx > Len(listing)
    /\ ret' = [key |-> EmptyString,
               err |-> <<"object not found for the given presigned URL">>]
    /\ pc' = "idle"
    /\ UNCHANGED <<store, uploaded, op, listing, findVars, goVars, presignCalls>>

\* GetObjects up to the range loop: the listing call, the channel, one worker
\* goroutine per object (wg.Add(1) each), the coordinator goroutine, the slice
GetObjectsStart(prefix, listErr) ==
    LET objects == IF listErr = NoErr THEN ListObjects(store, prefix) ELSE <<>>
        n == Len(objects)
    IN  /\ pc = "idle"
        /\ op' = [name |-> "GetObjects", prefix |-> prefix, listErr |-> listErr]
        /\ presignCalls' = 0
        /\ FreshFind
        /\ listing' = objects
        /\ resultsChan' = <<>>
        /\ closed' = FALSE
        /\ errorCount' = 0
        /\ firstError' = NoErr
        /\ received' = <<>>
        /\ produced' = <<>>
        /\ IF listErr # NoErr
           THEN /\ ret' = [urls |-> NilSlice, err |-> Wrap("failed to list objects", listErr)]
                /\ pc' = "idle"
                /\ pending' = {} /\ wg' = 0 /\ presignedURLs' = <<>>
           ELSE IF n = 0
           THEN /\ ret' = EmptyListingResult
                /\ pc' = "idle"
                /\ pending' = {} /\ wg' = 0 /\ presignedURLs' = <<>>
           ELSE /\ ret' = NoRet
                /\ pc' = "collect"
                /\ pending' = 1..n
                /\ wg' = n
                /\ presignedURLs' = [i \in 1..n |-> EmptyString]
        /\ UNCHANGED <<store, uploaded>>

\* worker goroutine i: GetPresignedURL, send on resultsChan, wg.Done().
\* The send waits while the buffer is full and panics on a closed channel.
Worker(i, out) ==
    /\ pc = "collect"
    /\ i \in pending
    /\ out \in PresignGetObject(listing[i])
    /\ IF closed
       THEN /\ pc' = "panic"
            /\ UNCHANGED <<resultsChan, pending, wg, produced, presignCalls>>
       ELSE /\ Len(resultsChan) < ChanCap(Len(listing))
            /\ resultsChan' = Append(resultsChan, WorkerResult(i, GetPresignedURL(out)))
            /\ produced' = [j \in DOMAIN produced \cup {i} |->
                               IF j = i THEN GetPresignedURL(out) ELSE produced[j]]
            /\ pending' = pending \ {i}
            /\ wg' = wg - 1
            /\ presignCalls' = presignCalls + 1
            /\ UNCHANGED pc
    /\ UNCHANGED <<store, uploaded, op, ret, listing, findVars, closed,
                   presignedURLs, errorCount, firstError, received>>

\* wg.Wait() is over when the counter is zero
WaitReturnsEarly(counter) == TRUE
WaitReturns(counter) == counter = 0

\* coordinator goroutine: wg.Wait(); close(resultsChan)
Coordinator ==
    /\ pc = "collect"
    /\ ~closed
    /\ WaitReturns(wg)
    /\ closed' = TRUE
    /\ UNCHANGED <<store, uploaded, pc, op, ret, listing, findVars, pending,
                   resultsChan, wg, presignedURLs, errorCount, firstError,
                   received, produced, presignCalls>>

\* one iteration of `for result := range resultsChan`
Receive ==
    /\ pc = "collect"
    /\ resultsChan # <<>>
    /\ LET result == Head(resultsChan)
       IN  /\ resultsChan' = Tail(resultsChan)
           /\ received' = Append(received, result)
           /\ IF result.err # NoErr
              THEN /\ errorCount' = errorCount + 1
                   /\ firstError' = RecordError(firstError, result.err)
                   /\ UNCHANGED presignedURLs
              ELSE /\ presignedURLs' = [presignedURLs EXCEPT ![result.index] = result.url]
                   /\ UNCHANGED <<errorCount, firstError>>
    /\ UNCHANGED <<store, uploaded, pc, op, ret, listing, findVars, pending,
                   closed, wg, produced, presignCalls>>

\* the range loop ends on the closed, drained channel; GetObjects returns
GetObjectsReturn ==
    /\ pc = "collect"
    /\ resultsChan = <<>>
    /\ closed
    /\ ret' = GetObjectsResult(presignedURLs, errorCount, firstError, Len(listing))
    /\ pc' = "idle"
    /\ UNCHANGED <<store, uploaded, op, listing, findVars, goVars, presignCalls>>

Faults == {NoErr} \cup SDKErrors
SignAnswers == UNION {PresignGetObject(k) : k \in CompositeKeys}

\* the calls that write or probe the bucket
Next ==
    \/ \E o \in ObjectIDs, k \in FileKeys, putErr \in Faults :
         \E out \in PresignGetObject(ObjectKey(o, k)) : UploadFile(o, k, putErr, out)
    \/ \E k \in LiteralKeys, delErr \in Faults : DeleteFile(k, delErr)
    \/ \E k \in LiteralKeys : \E out \in PresignGetObject(k) : GetPresignedURLCall(k, out)
    \/ \E k \in LiteralKeys, fault \in Faults : FileExists(k, fault)

Spec == Init /\ [][Next]_vars

\* the calls that list the bucket.  They read it once, in the listing call of
\* their first step, so running them against every bucket the other calls can
\* leave behind covers every interleaving with those calls.
ListNext ==
    \/ \E t \in FindTargets, p \in Prefixes, listErr \in Faults : FindStart(t, p, listErr)
    \/ \E out \in SignAnswers : FindStep(out)
    \/ FindNotFound
    \/ \E p \in Prefixes, listErr \in Faults : GetObjectsStart(p, listErr)
    \/ \E i \in 1..MaxObjects : \E out \in SignAnswers : Worker(i, out)
    \/ Coordinator
    \/ Receive
    \/ GetObjectsReturn

SpecList == Init /\ [][ListNext]_vars

\* every goroutine of a running GetObjects call is eventually scheduled, and
\* every signing call returns
FairSpec ==
    /\ SpecList
    /\ \A i \in 1..MaxObjects : WF_vars(\E out \in SignAnswers : Worker(i, out))
    /\ WF_vars(Coordinator)
    /\ WF_vars(Receive)
    /\ WF_vars(GetObjectsReturn)

----------------------------------------------------------------------------
(* normalizeURL on its own: every input string, normalized once and again *)

NormInit ==
    /\ store = {}
    /\ uploaded = {}
    /\ pc = "normalize"
    /\ op \in {[name |-> "normalizeURL", url |-> u] : u \in NormalizeInputs}
    /\ ret = NoRet
    /\ listing = <<>>
    /\ idx = 0
    /\ signed = <<>>
    /\ pending = {}
    /\ resultsChan = <<>>
    /\ closed = FALSE
    /\ wg = 0
    /\ presignedURLs = <<>>
    /\ errorCount = 0
    /\ firstError = NoErr
    /\ received = <<>>
    /\ produced = <<>>
    /\ presignCalls = 0

NormalizeURL ==
    /\ pc = "normalize"
    /\ ret' = [val |-> normalizeURL(op.url)]
    /\ pc' = "normalized"
    /\ UNCHANGED <<store, uploaded, op, listing, findVars, goVars, presignCalls>>

NormalizeAgain ==
    /\ pc = "normalized"
    /\ ret' = [val |-> ret.val, again |-> normalizeURL(ret.val)]
    /\ pc' = "renormalized"
    /\ UNCHANGED <<store, uploaded, op, listing, findVars, goVars, presignCalls>>

NormNext == NormalizeURL \/ NormalizeAgain

SpecNormalize == NormInit /\ [][NormNext]_vars

----------------------------------------------------------------------------
(* Properties *)

GetObjectsDone == pc = "idle" /\ op.name = "GetObjects"
GetObjectsRan == GetObjectsDone /\ op.listErr = NoErr /\ Len(listing) >= 1
FindDone == pc = "idle" /\ op.name = "FindKeyByPresignedURL"

Failed == {i \in DOMAIN produced : produced[i].err # NoErr}

\* the URLs of the signing calls that succeeded, in listing order
RECURSIVE SuccessURLsFrom(_)
SuccessURLsFrom(i) ==
    IF i > Len(listing) THEN <<>>
    ELSE (IF produced[i].err = NoErr THEN <<produced[i].url>> ELSE <<>>)
           \o SuccessURLsFrom(i + 1)

\* a string cut before its first '?' or '#', stated without a scan
Separators(u) == {i \in 1..Len(u) : u[i] \in {"?", "#"}}
Stripped(u) ==
    IF Separators(u) = {} THEN u
    ELSE SubSeq(u, 1, (CHOOSE i \in Separators(u) : \A j \in Separators(u) : i <= j) - 1)

\* C1: when GetObjects lists M >= 1 objects and no signing call fails, it
\* returns, whatever the order the workers finished in, a non-nil sequence of
\* length M whose i-th element is the URL signed for the i-th listed object.
C1_OrderPreserved ==
    (GetObjectsRan /\ Failed = {})
      => /\ ret.err = NoErr
         /\ ~ret.urls.isNil
         /\ Len(ret.urls.elems) = Len(listing)
         /\ \A i \in 1..Len(listing) : ret.urls.elems[i] = produced[i].url

\* three objects, the first listed one finishing last, three different URLs
C1_Witness ==
    /\ GetObjectsRan /\ Failed = {}
    /\ Len(listing) = 3
    /\ received[3].index = 1
    /\ received[1].index = 3
    /\ Cardinality({produced[i].url : i \in 1..3}) = 3

C3_AllFailedFirstError ==
    (GetObjectsRan /\ Cardinality(Failed) = Len(listing))
      => /\ ret.urls.isNil
         /\ received[1].err # NoErr
         /\ ret.err = <<"failed to get presigned URLs">> \o received[1].err

\* all three fail, the last listed worker is received first, with another
\* error than the first listed worker's
C3_Witness ==
    /\ GetObjectsRan /\ Cardinality(Failed) = 3
    /\ received[1].index = 3
    /\ produced[1].err # produced[3].err

\* C4 as claimed: UploadFile writes under objectID + "/" + key, and FileExists
\* on a key that a successful UploadFile wrote and nobody deleted since
\* returns true.
C4_Original ==
    /\ (op.name = "UploadFile" /\ op.putErr = NoErr)
         => /\ op.objectKey = op.objectID \o <<"/">> \o op.key
            /\ op.objectKey \in store
    /\ (op.name = "FileExists" /\ op.key \in uploaded) => ret.exists

\* C4 as amended: UploadFile adds exactly the key objectID + "/" + key to the
\* bucket, and FileExists on a key that a successful UploadFile wrote and
\* nobody deleted since never sees it absent: it returns true exactly when
\* its head-object call does not fail.
C4_UploadThenExists ==
    /\ [](/\ (op.name = "UploadFile" /\ op.putErr = NoErr)
               => /\ op.objectKey = op.objectID \o <<"/">> \o op.key
                  /\ op.objectKey \in store
          /\ (op.name = "FileExists" /\ op.key \in uploaded)
               => /\ op.headErr # <<"NotFound">>
                  /\ ret.exists <=> (op.headErr = NoErr))
    /\ [][(op'.name = "UploadFile" /\ op'.putErr = NoErr)
            => store' = store \cup {op'.objectID \o <<"/">> \o op'.key}]_vars

C4_Witness ==
    /\ op.name = "FileExists"
    /\ op.key \in uploaded
    /\ ret.exists

\* the i-th listed object was signed and its URL equals the target, both cut
FindMatch(i) ==
    /\ signed[i].err = NoErr
    /\ Stripped(signed[i].url) = Stripped(op.presignedURL)
NotFoundError == <<"object not found for the given presigned URL">>

\* C5: FindKeyByPresignedURL returns the key of the first listed object whose
\* fresh presigned URL equals the target once both are cut before '?' or '#';
\* it fails with the not-found error when the listing is empty or no object
\* matches, and with the wrapped listing error when the listing fails.
C5_FindFirstMatch ==
    FindDone =>
      IF op.listErr # NoErr
      THEN /\ ret.key = EmptyString
           /\ ret.err = <<"failed to list objects">> \o op.listErr
           /\ ret.err # NotFoundError
           /\ signed = <<>>
      ELSE /\ listing = ListObjects(store, op.prefix)
           /\ Len(signed) <= Len(listing)
           /\ IF \E i \in 1..Len(signed) : FindMatch(i)
              THEN /\ ret.err = NoErr
                   /\ ret.key = listing[Len(signed)]
                   /\ FindMatch(Len(signed))
                   /\ \A j \in 1..Len(signed) - 1 : ~FindMatch(j)
              ELSE /\ ret.err = NotFoundError
                   /\ ret.key = EmptyString
                   /\ Len(signed) = Len(listing)

\* found at the third object, after a signing failure and a non-matching URL,
\* and the fresh URL differs from the target in its query
C5_Witness ==
    /\ FindDone /\ op.listErr = NoErr
    /\ ret.err = NoErr
    /\ Len(signed) = 3
    /\ signed[1].err # NoErr
    /\ signed[2].err = NoErr
    /\ signed[3].url # op.presignedURL

\* C6: FileExists never returns an error; it returns true exactly when the
\* head-object call succeeds, so false both for an absent object and for a
\* head-object call that fails for another reason.
C6_FileExistsNeverErrors ==
    op.name = "FileExists"
      => /\ ret.err = NoErr
         /\ ret.exists <=> (op.headErr = NoErr)
         /\ op.key \notin store => ~ret.exists
         /\ op.headErr \in {NoErr, <<"NotFound">>} => (ret.exists <=> op.key \in store)

\* the object is there, the head-object call fails, the answer is (false, nil)
C6_Witness ==
    /\ op.name = "FileExists"
    /\ op.key \in store
    /\ op.headErr \in SDKErrors
    /\ ret = [exists |-> FALSE, err |-> NoErr]

\* C7: normalizeURL(u) is u when u has no '?' and no '#', and otherwise u cut
\* before the first of them; the result has neither character, normalizing it
\* again changes nothing, and the example maps to "https://h/k".
C7_NormalizeURL ==
    pc \in {"normalized", "renormalized"}
      => /\ Separators(op.url) = {} => ret.val = op.url
         /\ ret.val = Stripped(op.url)
         /\ Separators(ret.val) = {}
         /\ pc = "renormalized" => ret.again = ret.val
         /\ op.url = ExampleURL => ret.val = ExampleNormalized

\* a '#' ahead of a '?': the cut is at the '#'
C7_Witness ==
    /\ pc = "renormalized"
    /\ op.url = <<"a", "#", "?">>
    /\ ret.val = <<"a">>

\* C8: GetObjects on an empty listing returns an empty non-nil slice and a nil
\* error without starting any signing work; a failed listing returns a nil
\* slice and the wrapped listing error instead.
C8_EmptyListing ==
    /\ (GetObjectsDone /\ op.listErr = NoErr /\ ListObjects(store, op.prefix) = <<>>)
         => /\ ret = [urls |-> [isNil |-> FALSE, elems |-> <<>>], err |-> NoErr]
            /\ presignCalls = 0
            /\ pending = {} /\ wg = 0
            /\ received = <<>> /\ resultsChan = <<>> /\ produced = <<>>
    /\ (GetObjectsDone /\ op.listErr # NoErr)
         => /\ ret.urls.isNil
            /\ ret.err = <<"failed to list objects">> \o op.listErr
            /\ presignCalls = 0
    /\ pc = "collect" => Len(listing) >= 1

\* the bucket holds objects, none under the prefix
C8_Witness ==
    /\ GetObjectsDone /\ op.listErr = NoErr
    /\ store # {}
    /\ listing = <<>>
    /\ ~ret.urls.isNil

\* C9: UploadFile is not transactional.  When the put succeeds and the signing
\* fails it returns an empty URL and an error and the object stays in the
\* bucket; when the put fails no signing is attempted and the bucket is as it
\* was.
C9_UploadNotTransactional ==
    /\ [](/\ (op.name = "UploadFile" /\ op.putErr = NoErr /\ op.signErr # NoErr)
               => /\ ret.url = EmptyString
                  /\ ret.err = <<"failed to generate presigned URL">> \o op.signErr
                  /\ op.objectKey \in store
                  /\ presignCalls = 1
          /\ (op.name = "UploadFile" /\ op.putErr # NoErr)
               => /\ ret.url = EmptyString
                  /\ ret.err = <<"failed to upload file to S3">> \o op.putErr
                  /\ presignCalls = 0)
    /\ [][(op'.name = "UploadFile" /\ op'.putErr # NoErr) => store' = store]_vars
    /\ [][(op'.name = "UploadFile" /\ op'.putErr = NoErr)
            => store' = store \cup {op'.objectKey}]_vars

\* the object is in the bucket although no UploadFile of it ever succeeded
C9_Witness ==
    /\ op.name = "UploadFile" /\ op.putErr = NoErr /\ op.signErr # NoErr
    /\ op.objectKey \in store
    /\ op.objectKey \notin uploaded
    /\ ret.err # NoErr

\* the results sent so far, oldest first
Sent == received \o resultsChan

\* the fan-out/fan-in protocol in every state of a GetObjects call
C10_Protocol ==
    /\ pc # "panic"
    /\ pc = "collect" =>
         /\ wg = Cardinality(pending)
         /\ pending # {} => Len(resultsChan) < ChanCap(Len(listing))
         /\ Len(resultsChan) <= Len(listing)
    /\ op.name = "GetObjects" =>
         /\ Len(Sent) = Len(listing) - Cardinality(pending)
         /\ {Sent[j].index : j \in 1..Len(Sent)} = (1..Len(listing)) \ pending
         /\ \A j \in 1..Len(Sent) :
              /\ Sent[j].url = produced[Sent[j].index].url
              /\ Sent[j].err = produced[Sent[j].index].err
         /\ closed => (pending = {} /\ Len(Sent) = Len(listing))
    /\ GetObjectsRan => (closed /\ Len(received) = Len(listing))

\* C10: a GetObjects call over M >= 1 objects always returns.  Each worker
\* sends exactly one result, tagged with its own index, and its send never
\* waits; the channel is closed only after all M sends, so no send hits a
\* closed channel; the collector has received M results when it returns.
C10_FanInCompletes ==
    /\ []C10_Protocol
    /\ (pc = "collect") ~> GetObjectsRan

C10_Witness ==
    /\ GetObjectsRan
    /\ Len(received) = 3
    /\ received[1].index = 2

====
